---- MODULE Spec2Model ----
(***************************************************************************)
(* Model of src/app.py: the HH:MM:SS time codec, the annotation loader     *)
(* (line parsing and marker pairing), the interval CRUD functions, the     *)
(* text/JSON persistence and the Gradio session wiring.                    *)
(*                                                                         *)
(* Text is modelled as a sequence of one-character strings, so that        *)
(* formatting and parsing are real computations over characters.           *)
(* Python dicts held in lists are modelled as references into a heap, so   *)
(* that in-place mutation and aliasing behave as in Python.                *)
(***************************************************************************)
EXTENDS Integers, Sequences, FiniteSets, TLC

VARIABLES
    \* ---- time codec harness
    c_pc, c_seconds, c_text, c_back,
    \* ---- load_edf_with_annotations
    pc, open_handles, n_signals, data, file, annotations, intervals,
    ret_intervals, ret_choices, ret_error, io_failed,
    \* ---- save_markup_to_file
    sv_pc, sv_existing, sv_markup, json_file, txt_file,
    \* ---- edit_markup / delete_markup called on arbitrary arguments
    f_pc, f_heap0, f_heap, f_existing, f_markup, f_call,
    f_ret_intervals, f_ret_choices, f_outcome,
    \* ---- Gradio session (gr.State values and event chain position)
    s_pc, heap, annotations_output, interval_choices_output,
    selected_interval_choices, n_loaded, n_adds, n_deletes

codec_vars == <<c_pc, c_seconds, c_text, c_back>>
load_vars == <<pc, open_handles, n_signals, data, file, annotations, intervals,
               ret_intervals, ret_choices, ret_error, io_failed>>
save_vars == <<sv_pc, sv_existing, sv_markup, json_file, txt_file>>
fn_vars == <<f_pc, f_heap0, f_heap, f_existing, f_markup, f_call,
             f_ret_intervals, f_ret_choices, f_outcome>>
session_vars == <<s_pc, heap, annotations_output, interval_choices_output,
                  selected_interval_choices, n_loaded, n_adds, n_deletes>>
vars == <<codec_vars, load_vars, save_vars, fn_vars, session_vars>>
not_codec_vars == <<load_vars, save_vars, fn_vars, session_vars>>
not_load_vars == <<codec_vars, save_vars, fn_vars, session_vars>>
not_save_vars == <<codec_vars, load_vars, fn_vars, session_vars>>
not_fn_vars == <<codec_vars, load_vars, save_vars, session_vars>>
not_session_vars == <<codec_vars, load_vars, fn_vars>>

(***************************************************************************)
(* Bounds of the model.                                                    *)
(***************************************************************************)
MaxSeconds == 70

MaxSignals == 1

MaxLines == 4

MaxSaved == 2

MaxObjects == 3

MaxArgLen == 2

MaxHeap == 4

MaxSessionLen == 6

MaxDeletes == 2

(***************************************************************************)
(* Python text primitives.                                                 *)
(***************************************************************************)
Digits == <<"0", "1", "2", "3", "4", "5", "6", "7", "8", "9">>

IsDigit(c) == \E d \in 1..10 : Digits[d] = c

DigitVal(c) == (CHOOSE d \in 1..10 : Digits[d] = c) - 1

\* str.isspace() over the model's alphabet
IsSpace(c) == c \in {" ", "\n", "\t"}

RECURSIVE NatToStr(_)
NatToStr(n) ==
    IF n < 10 THEN <<Digits[n + 1]>>
    ELSE NatToStr(n \div 10) \o <<Digits[(n % 10) + 1]>>

\* format(n, "d") / str(n) of an int
IntToStr(n) == IF n < 0 THEN <<"-">> \o NatToStr(-n) ELSE NatToStr(n)

\* format(n, "02"): zero-padded to a minimum width of two, never truncated
Pad2(n) ==
    LET t == IntToStr(n)
    IN  IF Len(t) >= 2 THEN t
        ELSE IF n < 0 THEN t ELSE <<"0">> \o t

RECURSIVE DigitsValue(_)
DigitsValue(t) ==
    IF Len(t) = 0 THEN 0
    ELSE 10 * DigitsValue(SubSeq(t, 1, Len(t) - 1)) + DigitVal(t[Len(t)])

AllDigits(t) == Len(t) > 0 /\ \A i \in 1..Len(t) : IsDigit(t[i])

\* int(text): [ok |-> FALSE] stands for ValueError
ParseInt(t) ==
    LET signed == Len(t) > 0 /\ t[1] \in {"-", "+"}
        body == IF signed THEN Tail(t) ELSE t
    IN  IF AllDigits(body)
        THEN [ok |-> TRUE,
              val |-> IF signed /\ t[1] = "-" THEN -DigitsValue(body)
                      ELSE DigitsValue(body)]
        ELSE [ok |-> FALSE, val |-> 0]

\* text.split(sep) for a one-character separator: empty fields are kept
RECURSIVE SplitOn(_, _)
SplitOn(t, sep) ==
    IF \A i \in 1..Len(t) : t[i] # sep THEN <<t>>
    ELSE LET k == CHOOSE i \in 1..Len(t) :
                      t[i] = sep /\ \A j \in 1..(i - 1) : t[j] # sep
         IN  <<SubSeq(t, 1, k - 1)>> \o SplitOn(SubSeq(t, k + 1, Len(t)), sep)

\* text.strip()
RECURSIVE Strip(_)
Strip(t) ==
    IF Len(t) = 0 THEN t
    ELSE IF IsSpace(t[1]) THEN Strip(Tail(t))
    ELSE IF IsSpace(t[Len(t)]) THEN Strip(SubSeq(t, 1, Len(t) - 1))
    ELSE t

\* text.split(): split on runs of whitespace, no empty tokens
RECURSIVE SplitWS(_)
SplitWS(t) ==
    IF Len(t) = 0 THEN <<>>
    ELSE IF IsSpace(t[1]) THEN SplitWS(Tail(t))
    ELSE IF \A i \in 1..Len(t) : ~IsSpace(t[i]) THEN <<t>>
    ELSE LET k == CHOOSE i \in 1..Len(t) :
                      IsSpace(t[i]) /\ \A j \in 1..(i - 1) : ~IsSpace(t[j])
         IN  <<SubSeq(t, 1, k - 1)>> \o SplitWS(SubSeq(t, k + 1, Len(t)))

(***************************************************************************)
(* Time codec.                                                             *)
(***************************************************************************)
\* time_to_seconds: [ok |-> FALSE] stands for the ValueError of int() or of
\* unpacking a number of fields other than three
time_to_seconds(time_str) ==
    LET parts == SplitOn(time_str, ":")
        nums == [i \in 1..Len(parts) |-> ParseInt(parts[i])]
    IN  IF Len(parts) = 3 /\ \A i \in 1..3 : nums[i].ok
        THEN [ok |-> TRUE,
              val |-> nums[1].val * 3600 + nums[2].val * 60 + nums[3].val]
        ELSE [ok |-> FALSE, val |-> 0]

seconds_to_time_drop_hours(seconds) ==
    Pad2((seconds \div 3600) % 100) \o <<":">>
        \o Pad2((seconds % 3600) \div 60) \o <<":">> \o Pad2(seconds % 60)

seconds_to_time(seconds) ==
    LET h == seconds \div 3600
        m == (seconds % 3600) \div 60
        s == seconds % 60
    IN  Pad2(h) \o <<":">> \o Pad2(m) \o <<":">> \o Pad2(s)

(***************************************************************************)
(* Annotation loader: line parsing and marker pairing.                     *)
(***************************************************************************)
ButLast(t) == SubSeq(t, 1, Len(t) - 1)

LastChar(t) == t[Len(t)]

NoMarker == [ok |-> FALSE, time |-> 0, description |-> <<>>]

ParseLine_at_least_three(line) ==
    LET parts == SplitWS(Strip(line))
    IN  IF Len(parts) < 3 THEN NoMarker
        ELSE LET onset == time_to_seconds(parts[2])
             IN  IF onset.ok
                 THEN [ok |-> TRUE, time |-> onset.val, description |-> parts[3]]
                 ELSE NoMarker

\* One iteration of the line loop: the marker appended, or ok = FALSE when
\* the line is skipped (token count, or ValueError from time_to_seconds)
ParseLine(line) ==
    LET parts == SplitWS(Strip(line))
    IN  IF Len(parts) # 3 THEN NoMarker
        ELSE LET onset == time_to_seconds(parts[2])
             IN  IF onset.ok
                 THEN [ok |-> TRUE, time |-> onset.val, description |-> parts[3]]
                 ELSE NoMarker

RECURSIVE ParseAnnotations(_)
ParseAnnotations(lines) ==
    IF Len(lines) = 0 THEN <<>>
    ELSE LET m == ParseLine(lines[Len(lines)])
             before == ParseAnnotations(ButLast(lines))
         IN  IF m.ok
             THEN Append(before, [time |-> m.time, description |-> m.description])
             ELSE before

\* the condition of the if inside the pairing loop
IsPair(start_annotation, end_annotation) ==
    /\ ButLast(start_annotation.description) = ButLast(end_annotation.description)
    /\ LastChar(start_annotation.description) = "1"
    /\ LastChar(end_annotation.description) = "2"

MakeInterval_swapped(start_annotation, end_annotation) ==
    [start |-> end_annotation.time,
     end |-> start_annotation.time,
     description |-> ButLast(start_annotation.description)]

MakeInterval(start_annotation, end_annotation) ==
    [start |-> start_annotation.time,
     end |-> end_annotation.time,
     description |-> ButLast(start_annotation.description)]

\* the loop body for a 0-based i and the rest of range(i, len - 1, step)
RECURSIVE PairFrom(_, _, _)
PairFrom(anns, i, step) ==
    IF i >= Len(anns) - 1 THEN <<>>
    ELSE (IF i + 1 < Len(anns) /\ IsPair(anns[i + 1], anns[i + 2])
          THEN <<MakeInterval(anns[i + 1], anns[i + 2])>>
          ELSE <<>>) \o PairFrom(anns, i + step, step)

PairIntervals_resync(anns) == PairFrom(anns, 0, 1)

PairIntervals(anns) == PairFrom(anns, 0, 2)

\* the f-string of one display entry, i 0-based as in enumerate
IntervalChoice(i, interval) ==
    IntToStr(i + 1) \o <<":", " ">> \o seconds_to_time(interval.start)
        \o <<" ", "-", " ">> \o seconds_to_time(interval.end)
        \o <<" ", "(">> \o interval.description \o <<")">>

IntervalChoices(ivs) == [k \in 1..Len(ivs) |-> IntervalChoice(k - 1, ivs[k])]

(***************************************************************************)
(* Inputs of the loader: annotation files as sequences of text lines.      *)
(***************************************************************************)
T05 == <<"0", "0", ":", "0", "0", ":", "0", "5">>

T09 == <<"0", "0", ":", "0", "0", ":", "0", "9">>

TTwoFields == <<"0", "0", ":", "0", "7">>

TNotNumeric == <<"x", "x", ":", "0", "0", ":", "0", "7">>

Swd == <<"s", "w", "d">>

Swd1 == <<"s", "w", "d", "1">>

Swd2 == <<"s", "w", "d", "2">>

Ds2 == <<"d", "s", "2">>

MarkerLine(t, l) == <<"1", " ", " ">> \o t \o <<" ", " ">> \o l \o <<"\n">>

TwoTokenLine == <<"1", " ">> \o T05 \o <<"\n">>

FourTokenLine == <<"1", " ">> \o T05 \o <<" ">> \o Swd1 \o <<" ", "x", "\n">>

WellFormedLines ==
    {MarkerLine(t, l) : t \in {T05, T09}, l \in {Swd1, Swd2}}
        \cup {MarkerLine(T09, Ds2)}

MalformedLines ==
    {MarkerLine(TTwoFields, Swd2), MarkerLine(TNotNumeric, Swd1),
     TwoTokenLine, FourTokenLine}

AnnotationLines == WellFormedLines \cup MalformedLines

AnnotationFiles == UNION {[1..n -> AnnotationLines] : n \in 0..MaxLines}

(***************************************************************************)
(* load_edf_with_annotations, one action per step that can fail or that    *)
(* opens or releases a file handle.                                        *)
(***************************************************************************)
LoadIdle ==
    /\ pc = "idle"
    /\ open_handles = {}
    /\ n_signals = 0
    /\ data = {}
    /\ file = <<>>
    /\ annotations = <<>>
    /\ intervals = <<>>
    /\ ret_intervals = <<>>
    /\ ret_choices = <<>>
    /\ ret_error = ""
    /\ io_failed = FALSE

\* the except clause: empty outputs and the error message
LoadError ==
    /\ pc' = "returned"
    /\ ret_intervals' = <<>>
    /\ ret_choices' = <<>>
    /\ ret_error' = "error"
    /\ io_failed' = TRUE
    /\ UNCHANGED not_load_vars

OpenEdf ==
    /\ pc = "start"
    /\ \E n \in 0..MaxSignals : n_signals' = n
    /\ open_handles' = open_handles \cup {"edf"}
    /\ pc' = "read_signals"
    /\ UNCHANGED <<data, file, annotations, intervals, ret_intervals,
                   ret_choices, ret_error, io_failed>>
    /\ UNCHANGED not_load_vars

OpenEdfFails ==
    /\ pc = "start"
    /\ LoadError
    /\ UNCHANGED <<open_handles, n_signals, data, file, annotations, intervals>>

ReadSignal ==
    /\ pc = "read_signals"
    /\ Cardinality(data) < n_signals
    /\ data' = data \cup {Cardinality(data)}
    /\ UNCHANGED <<pc, open_handles, n_signals, file, annotations, intervals,
                   ret_intervals, ret_choices, ret_error, io_failed>>
    /\ UNCHANGED not_load_vars

\* readSignal or getSampleFrequency raises: control jumps over edf.close() to
\* the except clause.  The function never closes the reader on this path; the
\* handle is gone at the return only if the runtime has already finalized the
\* unreachable reader object, which the code does not control.
ReadSignalFails ==
    /\ pc = "read_signals"
    /\ Cardinality(data) < n_signals
    /\ \E finalized \in BOOLEAN :
        open_handles' = IF finalized THEN open_handles \ {"edf"} ELSE open_handles
    /\ LoadError
    /\ UNCHANGED <<n_signals, data, file, annotations, intervals>>

CloseEdf ==
    /\ pc = "read_signals"
    /\ Cardinality(data) = n_signals
    /\ open_handles' = open_handles \ {"edf"}
    /\ pc' = "open_annotations"
    /\ UNCHANGED <<n_signals, data, file, annotations, intervals,
                   ret_intervals, ret_choices, ret_error, io_failed>>
    /\ UNCHANGED not_load_vars

OpenAnnotations(contents) ==
    /\ pc = "open_annotations"
    /\ \E f \in contents : file' = f
    /\ open_handles' = open_handles \cup {"txt"}
    /\ pc' = "read_annotations"
    /\ UNCHANGED <<n_signals, data, annotations, intervals,
                   ret_intervals, ret_choices, ret_error, io_failed>>
    /\ UNCHANGED not_load_vars

OpenAnnotationsFails ==
    /\ pc = "open_annotations"
    /\ LoadError
    /\ UNCHANGED <<open_handles, n_signals, data, file, annotations, intervals>>

\* the whole line loop; leaving the with block releases the handle
ReadAnnotations ==
    /\ pc = "read_annotations"
    /\ annotations' = ParseAnnotations(file)
    /\ open_handles' = open_handles \ {"txt"}
    /\ pc' = "pair"
    /\ UNCHANGED <<n_signals, data, file, intervals,
                   ret_intervals, ret_choices, ret_error, io_failed>>
    /\ UNCHANGED not_load_vars

\* reading the file raises (I/O or decoding error): the with block still
\* releases the handle
ReadAnnotationsFails ==
    /\ pc = "read_annotations"
    /\ open_handles' = open_handles \ {"txt"}
    /\ LoadError
    /\ UNCHANGED <<n_signals, data, file, annotations, intervals>>

BuildIntervals ==
    /\ pc = "pair"
    /\ intervals' = PairIntervals(annotations)
    /\ ret_intervals' = intervals'
    /\ ret_choices' = IntervalChoices(intervals')
    /\ ret_error' = ""
    /\ pc' = "returned"
    /\ UNCHANGED <<open_handles, n_signals, data, file, annotations, io_failed>>
    /\ UNCHANGED not_load_vars

(***************************************************************************)
(* add_markup, edit_markup and delete_markup.  A list holds references     *)
(* (indices into the heap h) to the interval dicts.                        *)
(***************************************************************************)
SelectedIndex_no_offset(selected) == ParseInt(SplitOn(selected, ":")[1]).val

\* int(selected_interval.split(":")[0]) - 1
SelectedIndex(selected) == ParseInt(SplitOn(selected, ":")[1]).val - 1

\* Python list subscript: the 1-based position a 0-based or negative index
\* denotes in a list of length n, or 0 for IndexError
ListPosition(index, n) ==
    IF 0 <= index /\ index < n THEN index + 1
    ELSE IF -n <= index /\ index < 0 THEN index + n + 1
    ELSE 0

Deref(h, refs) == [k \in 1..Len(refs) |-> h[refs[k]]]

RemoveAt(list, k) ==
    [j \in 1..(Len(list) - 1) |-> IF j < k THEN list[j] ELSE list[j + 1]]

\* add_markup: the new dict is appended to the list it was given, in place
AddResult(h, start_time, end_time, label, markup_intervals) ==
    [heap |-> Append(h, [start |-> start_time, end |-> end_time,
                         description |-> label]),
     intervals |-> Append(markup_intervals, Len(h) + 1)]

EditResult(h, selected, start_time, end_time, label, existing_intervals, markup_intervals) ==
    LET all_intervals == existing_intervals \o markup_intervals
        k == ListPosition(SelectedIndex(selected), Len(all_intervals))
        h2 == [h EXCEPT ![all_intervals[k]] =
                  [start |-> start_time, end |-> end_time, description |-> label]]
    IN  IF k = 0
        THEN [outcome |-> "IndexError", heap |-> h, intervals |-> <<>>,
              choices |-> <<>>]
        ELSE [outcome |-> "ok", heap |-> h2, intervals |-> all_intervals,
              choices |-> IntervalChoices(Deref(h2, all_intervals))]

DeleteResult(h, selected, existing_intervals, markup_intervals) ==
    LET all_intervals == existing_intervals \o markup_intervals
        k == ListPosition(SelectedIndex(selected), Len(all_intervals))
        rest == RemoveAt(all_intervals, k)
    IN  IF k = 0
        THEN [outcome |-> "IndexError", heap |-> h, intervals |-> <<>>,
              choices |-> <<>>]
        ELSE [outcome |-> "ok", heap |-> h, intervals |-> rest,
              choices |-> IntervalChoices(Deref(h, rest))]

NoCall == [op |-> "none", position |-> 0, selected |-> <<>>,
           start |-> 0, end |-> 0, label |-> <<>>]

(***************************************************************************)
(* Values of the parts of the state a specification does not exercise.     *)
(***************************************************************************)
CodecIdle ==
    /\ c_pc = "idle"
    /\ c_seconds = 0
    /\ c_text = <<>>
    /\ c_back = [ok |-> FALSE, val |-> 0]

SaveIdle ==
    /\ sv_pc = "idle"
    /\ sv_existing = <<>>
    /\ sv_markup = <<>>
    /\ json_file = <<>>
    /\ txt_file = <<>>

FnIdle ==
    /\ f_pc = "idle"
    /\ f_heap0 = <<>>
    /\ f_heap = <<>>
    /\ f_existing = <<>>
    /\ f_markup = <<>>
    /\ f_call = NoCall
    /\ f_ret_intervals = <<>>
    /\ f_ret_choices = <<>>
    /\ f_outcome = "none"

SessionIdle ==
    /\ s_pc = "off"
    /\ heap = <<>>
    /\ annotations_output = <<>>
    /\ interval_choices_output = <<>>
    /\ selected_interval_choices = <<>>
    /\ n_loaded = 0
    /\ n_adds = 0
    /\ n_deletes = 0

(***************************************************************************)
(* The time codec applied to bounded inputs.                               *)
(***************************************************************************)
SecondsInputs ==
    {h * 3600 + r : h \in {0, 1, 99, 100, 1000}, r \in 0..MaxSeconds}
        \cup {3599, 86399, 359999}

Encode ==
    /\ c_pc = "input"
    /\ c_text' = seconds_to_time(c_seconds)
    /\ c_pc' = "encoded"
    /\ UNCHANGED <<c_seconds, c_back>>
    /\ UNCHANGED not_codec_vars

Decode ==
    /\ c_pc = "encoded"
    /\ c_back' = time_to_seconds(c_text)
    /\ c_pc' = "decoded"
    /\ UNCHANGED <<c_seconds, c_text>>
    /\ UNCHANGED not_codec_vars

InitCodec ==
    /\ c_pc = "input"
    /\ c_seconds \in SecondsInputs
    /\ c_text = <<>>
    /\ c_back = [ok |-> FALSE, val |-> 0]
    /\ LoadIdle /\ SaveIdle /\ FnIdle /\ SessionIdle

NextCodec ==
    \/ Encode
    \/ Decode

SpecCodec == InitCodec /\ [][NextCodec]_vars

\* C7: for every non-negative integer s, including s >= 360000 where the hour
\* field has more than two digits, time_to_seconds(seconds_to_time(s)) = s.
TimeCodecRoundTrip ==
    c_pc = "decoded" => (c_back.ok /\ c_back.val = c_seconds)

TimeCodecRoundTripWitness ==
    /\ c_pc = "decoded"
    /\ c_seconds >= 360000
    /\ Len(c_text) > 8
    /\ c_back.val = c_seconds

(***************************************************************************)
(* The loader applied to bounded annotation files.                         *)
(***************************************************************************)
InitLoad ==
    /\ pc = "start"
    /\ open_handles = {}
    /\ n_signals = 0
    /\ data = {}
    /\ file = <<>>
    /\ annotations = <<>>
    /\ intervals = <<>>
    /\ ret_intervals = <<>>
    /\ ret_choices = <<>>
    /\ ret_error = ""
    /\ io_failed = FALSE
    /\ CodecIdle /\ SaveIdle /\ FnIdle /\ SessionIdle

NextLoad ==
    \/ OpenEdf
    \/ OpenEdfFails
    \/ ReadSignal
    \/ ReadSignalFails
    \/ CloseEdf
    \/ OpenAnnotations(AnnotationFiles)
    \/ OpenAnnotationsFails
    \/ ReadAnnotations
    \/ ReadAnnotationsFails
    \/ BuildIntervals

SpecLoad == InitLoad /\ [][NextLoad]_vars

\* The pairing stated over positions: the k-th pair is (m[2k], m[2k+1]),
\* 0-based, and the result lists the matching pairs in increasing k.
MatchingPairs(m) ==
    {k \in 0..Len(m) :
        /\ 2 * k + 1 < Len(m)
        /\ ButLast(m[2 * k + 1].description) = ButLast(m[2 * k + 2].description)
        /\ LastChar(m[2 * k + 1].description) = "1"
        /\ LastChar(m[2 * k + 2].description) = "2"}

ExpectedIntervals(m) ==
    LET K == MatchingPairs(m)
        Nth(j) == CHOOSE k \in K : Cardinality({q \in K : q < k}) = j - 1
    IN  [j \in 1..Cardinality(K) |->
            [start |-> m[2 * Nth(j) + 1].time,
             end |-> m[2 * Nth(j) + 2].time,
             description |-> ButLast(m[2 * Nth(j) + 1].description)]]

\* C1: the interval list is exactly, in increasing k, one interval
\* {m[2k].time, m[2k+1].time, m[2k].label without its last character} for each
\* k with 2k+1 < n whose labels share the base and end in '1' and '2'; other
\* pairs and a trailing marker contribute nothing; pairing never resynchronizes.
PairingExact ==
    (pc = "returned" /\ ~io_failed) =>
        ret_intervals = ExpectedIntervals(annotations)

PairingExactWitness ==
    /\ pc = "returned"
    /\ ~io_failed
    /\ Len(annotations) = 4
    /\ annotations[1] = [time |-> 5, description |-> Swd1]
    /\ annotations[2] = [time |-> 9, description |-> Swd2]
    /\ annotations[3] = [time |-> 5, description |-> Swd1]
    /\ annotations[4] = [time |-> 9, description |-> Ds2]
    /\ ret_intervals = <<[start |-> 5, end |-> 9, description |-> Swd]>>

\* C2 as stated: every interval derived by the loader satisfies start <= end,
\* whatever the annotation lines.
IntervalsOrdered ==
    pc = "returned" =>
        \A i \in 1..Len(ret_intervals) :
            ret_intervals[i].start <= ret_intervals[i].end

TimesAscend(m) == \A i \in 1..(Len(m) - 1) : m[i].time <= m[i + 1].time

\* C2 amended: when the times of the well-formed annotation lines do not
\* decrease in file order, every derived interval satisfies start <= end.
IntervalsOrderedWhenTimesAscend ==
    (pc = "returned" /\ TimesAscend(annotations)) =>
        \A i \in 1..Len(ret_intervals) :
            ret_intervals[i].start <= ret_intervals[i].end

IntervalsOrderedWitness ==
    /\ pc = "returned"
    /\ TimesAscend(annotations)
    /\ Len(ret_intervals) = 2
    /\ ret_intervals[1].start < ret_intervals[1].end
    /\ ret_intervals[2].start = ret_intervals[2].end

\* A line is well formed when it holds exactly three whitespace-separated
\* tokens and its second token is three colon-separated integers.
TokenCount(line) ==
    Cardinality({i \in 1..Len(line) :
        ~IsSpace(line[i]) /\ (i = 1 \/ IsSpace(line[i - 1]))})

IsIntegerText(t) ==
    \/ AllDigits(t)
    \/ Len(t) > 1 /\ t[1] \in {"-", "+"} /\ AllDigits(Tail(t))

IsWellFormedLine(line) ==
    /\ TokenCount(line) = 3
    /\ LET fields == SplitOn(SplitWS(line)[2], ":")
       IN  Len(fields) = 3 /\ \A i \in 1..3 : IsIntegerText(fields[i])

MarkerOf(line) ==
    LET tokens == SplitWS(line)
        fields == SplitOn(tokens[2], ":")
    IN  [time |-> ParseInt(fields[1]).val * 3600 + ParseInt(fields[2]).val * 60
                    + ParseInt(fields[3]).val,
         description |-> tokens[3]]

WellFormedMarkers(lines) ==
    LET kept == SelectSeq(lines, IsWellFormedLine)
    IN  [i \in 1..Len(kept) |-> MarkerOf(kept[i])]

\* C8: a line without exactly three tokens, or whose time token is not three
\* colon-separated integers, is skipped and loading continues: the interval
\* list is the pairing of the well-formed lines alone, and the error outcome
\* arises only from a failing file operation, never from a malformed line.
MalformedLinesSkipped ==
    pc = "returned" =>
        /\ ret_error = "error" <=> io_failed
        /\ ~io_failed =>
              /\ annotations = WellFormedMarkers(file)
              /\ ret_intervals = PairIntervals(WellFormedMarkers(file))

MalformedLinesSkippedWitness ==
    /\ pc = "returned"
    /\ ret_error = ""
    /\ Len(file) = 4
    /\ file[1] = MarkerLine(T05, Swd1)
    /\ file[2] = FourTokenLine
    /\ file[3] = MarkerLine(TNotNumeric, Swd1)
    /\ file[4] = MarkerLine(T09, Swd2)
    /\ ret_intervals = <<[start |-> 5, end |-> 9, description |-> Swd]>>

\* C9: every file handle opened by the load is released before the call
\* returns, on every exit path.
HandlesReleased == pc = "returned" => open_handles = {}

(***************************************************************************)
(* save_markup_to_file, and the written text file read back by the loader. *)
(***************************************************************************)
RECURSIVE Flatten(_)
Flatten(seqs) ==
    IF Len(seqs) = 0 THEN <<>> ELSE Head(seqs) \o Flatten(Tail(seqs))

TxtLines_both_open(i, interval) ==
    IntToStr(i + 1) \o <<" ", " ">> \o seconds_to_time(interval.start)
        \o <<" ", " ">> \o interval.description \o <<"1", "\n">>
    \o IntToStr(i + 1) \o <<" ", " ">> \o seconds_to_time(interval.end)
        \o <<" ", " ", " ", " ">> \o interval.description \o <<"1", "\n">>

\* the two f.write calls for one interval, i 0-based as in enumerate
TxtLines(i, interval) ==
    IntToStr(i + 1) \o <<" ", " ">> \o seconds_to_time(interval.start)
        \o <<" ", " ">> \o interval.description \o <<"1", "\n">>
    \o IntToStr(i + 1) \o <<" ", " ">> \o seconds_to_time(interval.end)
        \o <<" ", " ", " ", " ">> \o interval.description \o <<"2", "\n">>

\* the text written by the loop over all_intervals
TxtContent(all_intervals) ==
    Flatten([k \in 1..Len(all_intervals) |-> TxtLines(k - 1, all_intervals[k])])

\* the lines a text file yields when iterated, each with its newline
RECURSIVE FileLines(_)
FileLines(text) ==
    IF Len(text) = 0 THEN <<>>
    ELSE IF \A i \in 1..Len(text) : text[i] # "\n" THEN <<text>>
    ELSE LET k == CHOOSE i \in 1..Len(text) :
                      text[i] = "\n" /\ \A j \in 1..(i - 1) : text[j] # "\n"
         IN  <<SubSeq(text, 1, k)>> \o FileLines(SubSeq(text, k + 1, Len(text)))

\* json.dump inside its with block
SaveJson ==
    /\ sv_pc = "start"
    /\ json_file' = sv_existing \o sv_markup
    /\ sv_pc' = "json_written"
    /\ UNCHANGED <<sv_existing, sv_markup, txt_file>>
    /\ UNCHANGED not_save_vars

\* opening or writing the JSON file raises: the exception leaves the function
SaveJsonFails ==
    /\ sv_pc = "start"
    /\ sv_pc' = "raised"
    /\ UNCHANGED <<sv_existing, sv_markup, json_file, txt_file>>
    /\ UNCHANGED not_save_vars

\* the write loop inside its with block, and the return
SaveTxt ==
    /\ sv_pc = "json_written"
    /\ txt_file' = TxtContent(sv_existing \o sv_markup)
    /\ sv_pc' = "returned"
    /\ UNCHANGED <<sv_existing, sv_markup, json_file>>
    /\ UNCHANGED not_save_vars

\* opening the text file raises before anything is written
SaveTxtFails ==
    /\ sv_pc = "json_written"
    /\ sv_pc' = "raised"
    /\ UNCHANGED <<sv_existing, sv_markup, json_file, txt_file>>
    /\ UNCHANGED not_save_vars

\* the saved text file is given to load_edf_with_annotations
Reload ==
    /\ sv_pc = "returned"
    /\ pc = "idle"
    /\ pc' = "start"
    /\ UNCHANGED <<open_handles, n_signals, data, file, annotations, intervals,
                   ret_intervals, ret_choices, ret_error, io_failed>>
    /\ UNCHANGED not_load_vars

SavedDescriptions == {<<>>, Swd, <<"a", "1">>}

SavedIntervals ==
    [start : {0, 3661}, end : {59, 360000}, description : SavedDescriptions]

IntervalLists(n) == UNION {[1..k -> SavedIntervals] : k \in 0..n}

InitSave ==
    /\ sv_pc = "start"
    /\ sv_existing \in IntervalLists(MaxSaved)
    /\ sv_markup \in IntervalLists(MaxSaved - Len(sv_existing))
    /\ json_file = <<>>
    /\ txt_file = <<>>
    /\ CodecIdle /\ LoadIdle /\ FnIdle /\ SessionIdle

NextSave ==
    \/ SaveJson
    \/ SaveJsonFails
    \/ SaveTxt
    \/ SaveTxtFails
    \/ Reload
    \/ OpenEdf
    \/ OpenEdfFails
    \/ ReadSignal
    \/ ReadSignalFails
    \/ CloseEdf
    \/ OpenAnnotations({FileLines(txt_file)})
    \/ OpenAnnotationsFails
    \/ ReadAnnotations
    \/ ReadAnnotationsFails
    \/ BuildIntervals

SpecSave == InitSave /\ [][NextSave]_vars

\* C3: for intervals with non-negative integer start and end and a description
\* without whitespace, the text file written by save_markup_to_file, read
\* back through the loader's parsing and pairing, yields an interval list of
\* the same length, order and start/end/description values as the saved one.
SaveReloadRoundTrip ==
    (sv_pc = "returned" /\ pc = "returned" /\ ~io_failed) =>
        /\ Len(ret_intervals) = Len(sv_existing) + Len(sv_markup)
        /\ ret_intervals = sv_existing \o sv_markup

SaveReloadRoundTripWitness ==
    /\ sv_pc = "returned"
    /\ pc = "returned"
    /\ ~io_failed
    /\ sv_existing = <<[start |-> 3661, end |-> 360000, description |-> <<"a", "1">>]>>
    /\ sv_markup = <<[start |-> 3661, end |-> 59, description |-> <<>>]>>
    /\ Len(file) = 4
    /\ ret_intervals = sv_existing \o sv_markup

(***************************************************************************)
(* edit_markup and delete_markup applied to bounded arguments.             *)
(***************************************************************************)
Is == <<"i", "s">>

Ds == <<"d", "s">>

\* a dropdown entry naming 1-based position p
SelectedFor(p) ==
    IntervalChoice(p - 1, [start |-> 5, end |-> 9, description |-> Swd])

ArgHeap ==
    [o \in 1..MaxObjects |->
        [start |-> o, end |-> o + 10,
         description |-> IF o % 2 = 1 THEN Swd ELSE Ds]]

\* lists of distinct dicts, as load and add build them; the two argument
\* lists may share dicts or be the same list
ArgLists ==
    {l \in UNION {[1..k -> 1..MaxObjects] : k \in 0..MaxArgLen} :
        \A i, j \in 1..Len(l) : i # j => l[i] # l[j]}

ArgPositions == (-1)..(2 * MaxArgLen + 1)

CallEdit ==
    /\ f_pc = "args"
    /\ \E p \in ArgPositions, lab \in {Is, Ds} :
        LET r == EditResult(f_heap, SelectedFor(p), 70, 80, lab,
                            f_existing, f_markup)
        IN  /\ f_call' = [op |-> "edit", position |-> p,
                          selected |-> SelectedFor(p),
                          start |-> 70, end |-> 80, label |-> lab]
            /\ f_heap' = r.heap
            /\ f_ret_intervals' = r.intervals
            /\ f_ret_choices' = r.choices
            /\ f_outcome' = r.outcome
    /\ f_pc' = "called"
    /\ UNCHANGED <<f_heap0, f_existing, f_markup>>
    /\ UNCHANGED not_fn_vars

CallDelete ==
    /\ f_pc = "args"
    /\ \E p \in ArgPositions :
        LET r == DeleteResult(f_heap, SelectedFor(p), f_existing, f_markup)
        IN  /\ f_call' = [op |-> "delete", position |-> p,
                          selected |-> SelectedFor(p),
                          start |-> 0, end |-> 0, label |-> <<>>]
            /\ f_heap' = r.heap
            /\ f_ret_intervals' = r.intervals
            /\ f_ret_choices' = r.choices
            /\ f_outcome' = r.outcome
    /\ f_pc' = "called"
    /\ UNCHANGED <<f_heap0, f_existing, f_markup>>
    /\ UNCHANGED not_fn_vars

InitFn ==
    /\ f_pc = "args"
    /\ f_heap0 = ArgHeap
    /\ f_heap = ArgHeap
    /\ f_existing \in ArgLists
    /\ f_markup \in ArgLists
    /\ f_call = NoCall
    /\ f_ret_intervals = <<>>
    /\ f_ret_choices = <<>>
    /\ f_outcome = "none"
    /\ CodecIdle /\ LoadIdle /\ SaveIdle /\ SessionIdle

NextFn ==
    \/ CallEdit
    \/ CallDelete

SpecFn == InitFn /\ [][NextFn]_vars

ArgAll == f_existing \o f_markup

ValidPosition == f_call.position \in 1..Len(ArgAll)

\* C4: edit_markup or delete_markup called with a 1-based position outside
\* 1..len(existing_intervals)+len(markup_intervals), position 0 included, fails
\* with an index error and modifies or removes no interval.
OutOfRangeFails ==
    (f_pc = "called" /\ ~ValidPosition) =>
        /\ f_outcome = "IndexError"
        /\ f_heap = f_heap0
        /\ f_ret_intervals = <<>>

\* C5: delete_markup with a valid position p over the concatenation of length
\* n returns the concatenation without its p-th interval, the others in their
\* order, and a display list of n-1 entries whose k-th entry is numbered k and
\* describes the k-th remaining interval.
DeleteRemovesOne ==
    (f_pc = "called" /\ f_call.op = "delete" /\ ValidPosition) =>
        LET n == Len(ArgAll)
            p == f_call.position
        IN  /\ f_outcome = "ok"
            /\ Len(f_ret_intervals) = n - 1
            /\ \A k \in 1..(n - 1) :
                  f_ret_intervals[k] = IF k < p THEN ArgAll[k] ELSE ArgAll[k + 1]
            /\ f_heap = f_heap0
            /\ Len(f_ret_choices) = n - 1
            /\ \A k \in 1..(n - 1) :
                  LET entry == f_ret_choices[k]
                      shown == f_heap0[IF k < p THEN ArgAll[k] ELSE ArgAll[k + 1]]
                      fields == SplitWS(entry)
                  IN  /\ fields[1] = IntToStr(k) \o <<":">>
                      /\ time_to_seconds(fields[2]).val = shown.start
                      /\ time_to_seconds(fields[4]).val = shown.end
                      /\ fields[5] = <<"(">> \o shown.description \o <<")">>

DeleteRemovesOneWitness ==
    /\ f_pc = "called"
    /\ f_call.op = "delete"
    /\ f_call.position = 2
    /\ f_existing = <<3, 1>>
    /\ f_markup = <<2>>
    /\ f_ret_intervals = <<3, 2>>
    /\ Len(f_ret_choices) = 2

\* C6: edit_markup with a valid position p replaces the fields of exactly the
\* interval at position p of the returned sequence; every other position
\* keeps its previous fields and the length is unchanged, for every pair of
\* argument lists, the same list passed twice included.
EditChangesOnlySelected ==
    (f_pc = "called" /\ f_call.op = "edit" /\ ValidPosition) =>
        /\ f_outcome = "ok"
        /\ Len(f_ret_intervals) = Len(ArgAll)
        /\ f_heap[f_ret_intervals[f_call.position]] =
              [start |-> f_call.start, end |-> f_call.end,
               description |-> f_call.label]
        /\ \A k \in 1..Len(ArgAll) :
              k # f_call.position =>
                  f_heap[f_ret_intervals[k]] = f_heap0[ArgAll[k]]

(***************************************************************************)
(* The Gradio session: the gr.State values and the event handlers as wired *)
(* in the Blocks.  Every handler receives annotations_output both as its   *)
(* pre-existing and as its user-added argument.                            *)
(***************************************************************************)
SessionFiles ==
    {<<>>,
     <<MarkerLine(T05, Swd1), MarkerLine(T09, Swd2)>>,
     <<MarkerLine(T05, Swd1), MarkerLine(T09, Swd2),
       MarkerLine(T09, Swd1), MarkerLine(T09, Swd2)>>}

Range(f) == {f[i] : i \in DOMAIN f}

\* load_button.click: of the seven returned values the third is stored in
\* annotations_output and the fifth sets the choices of the selected_interval
\* dropdown (outputs list of six components); interval_choices_output is not
\* among the outputs.  A failed load returns the empty list.
LoadClick ==
    /\ s_pc = "idle"
    /\ \E f \in SessionFiles, failed \in BOOLEAN :
        LET loaded == IF failed THEN <<>>
                      ELSE PairIntervals(ParseAnnotations(f))
        IN  /\ Len(heap) + Len(loaded) <= MaxHeap
            /\ heap' = heap \o loaded
            /\ annotations_output' =
                  [k \in 1..Len(loaded) |-> Len(heap) + k]
            /\ selected_interval_choices' = IntervalChoices(loaded)
            /\ n_loaded' = Len(loaded)
    /\ n_adds' = 0
    /\ n_deletes' = 0
    /\ UNCHANGED <<s_pc, interval_choices_output>>
    /\ UNCHANGED <<save_vars, not_session_vars>>

\* add_markup_button.click: add_markup on the state list
AddClick ==
    /\ s_pc = "idle"
    /\ Len(heap) < MaxHeap
    /\ 2 * (Len(annotations_output) + 1) <= MaxSessionLen
    /\ LET r == AddResult(heap, 20, 30, Ds, annotations_output)
       IN  /\ heap' = r.heap
           /\ annotations_output' = r.intervals
    /\ n_adds' = n_adds + 1
    /\ s_pc' = "add_then"
    /\ UNCHANGED <<interval_choices_output, selected_interval_choices,
                   n_loaded, n_deletes>>
    /\ UNCHANGED <<save_vars, not_session_vars>>

\* the lambda chained after add_markup, given the state list twice
AddThen ==
    /\ s_pc = "add_then"
    /\ annotations_output' = annotations_output \o annotations_output
    /\ interval_choices_output' =
          IntervalChoices(Deref(heap, annotations_output'))
    /\ s_pc' = "idle"
    /\ UNCHANGED <<heap, selected_interval_choices, n_loaded, n_adds, n_deletes>>
    /\ UNCHANGED <<save_vars, not_session_vars>>

\* edit_markup_button.click; a raised IndexError leaves the state as it was
EditClick ==
    /\ s_pc = "idle"
    /\ 2 * Len(annotations_output) <= MaxSessionLen
    /\ \E selected \in Range(selected_interval_choices) :
        LET r == EditResult(heap, selected, 70, 80, Is,
                            annotations_output, annotations_output)
        IN  IF r.outcome = "ok"
            THEN /\ heap' = r.heap
                 /\ annotations_output' = r.intervals
                 /\ interval_choices_output' = r.choices
            ELSE UNCHANGED <<heap, annotations_output, interval_choices_output>>
    /\ UNCHANGED <<s_pc, selected_interval_choices, n_loaded, n_adds, n_deletes>>
    /\ UNCHANGED <<save_vars, not_session_vars>>

\* delete_markup_button.click; a raised IndexError leaves the state as it was
DeleteClick ==
    /\ s_pc = "idle"
    /\ 2 * Len(annotations_output) - 1 <= MaxSessionLen
    /\ n_deletes < MaxDeletes
    /\ \E selected \in Range(selected_interval_choices) :
        LET r == DeleteResult(heap, selected,
                              annotations_output, annotations_output)
        IN  IF r.outcome = "ok"
            THEN /\ annotations_output' = r.intervals
                 /\ interval_choices_output' = r.choices
                 /\ n_deletes' = n_deletes + 1
            ELSE UNCHANGED <<annotations_output, interval_choices_output,
                             n_deletes>>
    /\ UNCHANGED <<s_pc, heap, selected_interval_choices, n_loaded, n_adds>>
    /\ UNCHANGED <<save_vars, not_session_vars>>

\* save_markup_button.click: save_markup_to_file given the state list twice
SaveClick ==
    /\ s_pc = "idle"
    /\ LET all_intervals == Deref(heap, annotations_output \o annotations_output)
       IN  /\ json_file' = all_intervals
           /\ txt_file' = TxtContent(all_intervals)
    /\ UNCHANGED <<sv_pc, sv_existing, sv_markup>>
    /\ UNCHANGED <<session_vars, not_session_vars>>

InitSession ==
    /\ s_pc = "idle"
    /\ heap = <<>>
    /\ annotations_output = <<>>
    /\ interval_choices_output = <<>>
    /\ selected_interval_choices = <<>>
    /\ n_loaded = 0
    /\ n_adds = 0
    /\ n_deletes = 0
    /\ CodecIdle /\ LoadIdle /\ SaveIdle /\ FnIdle

NextSession ==
    \/ LoadClick
    \/ AddClick
    \/ AddThen
    \/ EditClick
    \/ DeleteClick
    \/ SaveClick

SpecSession == InitSession /\ [][NextSession]_vars

\* C10: in the session as wired, after any sequence of add, edit and delete
\* actions at valid positions following a load of n intervals, the interval
\* list state holds exactly n + adds - deletes intervals.
SessionCountExact ==
    s_pc = "idle" =>
        Len(annotations_output) = n_loaded + n_adds - n_deletes

====
